---- MODULE Spec2Model ----
(***************************************************************************)
(* Model of src/snake/snake.c: a terminal Snake game.  The variables are   *)
(* the program's globals and the position of main; every action is one     *)
(* function call or step of main, translated from its code.                *)
(***************************************************************************)
EXTENDS Integers, Sequences, FiniteSets, TLC

(* ---------------- program constants (snake.c:11-13, 20, 22) ------------ *)
WIDTH == 40
HEIGHT == 20
GAME_SPEED == 100000
TailCap == 100
STOP == 0
LEFT == 1
RIGHT == 2
UP == 3
DOWN == 4

(* ---------------- bounds of the exploration ---------------------------- *)
\* moves (Logic calls with dir # STOP) explored, over all playthroughs; the
\* tail grows by at most one per move, so it also bounds nTail, and every
\* index into tailX / tailY stays below TailCap
MaxTicks == 3
\* keys pending in the input buffer when Input drains it
MaxKeys == 1

(* ---------------- inputs ------------------------------------------------ *)
\* keys getch() can return during play; "x" stands for any unhandled key
Keys == {"a", "A", "KEY_LEFT", "d", "D", "KEY_RIGHT", "w", "W", "KEY_UP",
         "s", "S", "KEY_DOWN", "q", "Q", "x"}
\* one key per case of Input's switch, used in buffers of two or more keys
CaseKeys == {"a", "d", "w", "s", "q"}
RECURSIVE SeqsOver(_, _)
SeqsOver(S, n) ==
    IF n = 0 THEN {<<>>}
    ELSE {Append(q, k) : q \in SeqsOver(S, n - 1), k \in S}
KeyBuffers ==
    {<<>>} \cup {<<k>> : k \in Keys}
           \cup UNION {SeqsOver(CaseKeys, n) : n \in 2..MaxKeys}
\* pairs of values rand() returns for one sample (x first, then y); they give
\* the cells (20,10), (21,10) and (21,11)
RandPairs == {<<19, 9>>, <<60, 29>>, <<20, 10>>}
\* how often a sample stream repeats its first pair before its second
RepeatCounts == {0, 1}
\* a stream of rand() results: sample i is r for i <= k and s afterwards; the
\* streams with k = 0 are the constant ones, the others change the pair
Streams ==
    {st \in [r : RandPairs, k : RepeatCounts, s : RandPairs] :
        (st.k = 0) <=> (st.r = st.s)}
\* values a read of tailX[i] / tailY[i] with i >= TailCap can yield: whatever
\* lies behind the array
BeyondX == {0, 21}
BeyondY == {0, 10}
\* terminal sizes getmaxyx() can report
TermRows == {HEIGHT + 5, HEIGHT + 6}
TermCols == {WIDTH + 1, WIDTH + 2}
\* microseconds that pass between two consecutive readings of the clock
Delays == {GAME_SPEED - 1, GAME_SPEED}

VARIABLES
    pc,             \* position of main
    gameOver, score, headX, headY, foodX, foodY, tailX, tailY, nTail, dir,
    playing,        \* main's local
    max_y, max_x,   \* main's locals: the terminal size getmaxyx() reported
    sinceUpdate,    \* current_time - last_update as of the latest gettimeofday
    sinceLogic,     \* microseconds from the clock reading of the playthrough's
                    \* last Logic call (of Setup, if none) to the latest reading
    exitStatus,     \* return value of main, -1 while running
    screen,         \* what Draw rendered last
    pre,            \* the globals on entry to the operation that ran last
    last,           \* the operation that ran last
    lastKeys,       \* the keys the last Input drained, or the key that
                    \* ended the last Prompt
    attempts,       \* PlaceFood's local after its last run in the last operation
    placeFoodCalls, \* calls of PlaceFood made by the last operation
    ticks,          \* moves made so far
    tickDir,        \* the dir the playthrough's last move used, STOP if none
    written         \* how many leading slots of tailX / tailY the shift of
                    \* Logic has assigned since the last Setup

game == <<gameOver, score, headX, headY, foodX, foodY, tailX, tailY, nTail, dir>>
\* what the playthrough's moves have done so far
history == <<tickDir, written>>
\* main's timing state
clock == <<sinceUpdate, sinceLogic>>
\* main's local, as computed from the two readings right before its only use
elapsed_time == sinceUpdate
vars == <<pc, gameOver, score, headX, headY, foodX, foodY, tailX, tailY, nTail,
          dir, playing, max_y, max_x, sinceUpdate, sinceLogic,
          exitStatus, screen, pre, last, lastKeys, attempts, placeFoodCalls, ticks,
          tickDir, written>>

Snapshot ==
    [gameOver |-> gameOver, score |-> score, headX |-> headX, headY |-> headY,
     foodX |-> foodX, foodY |-> foodY, tailX |-> tailX, tailY |-> tailY,
     nTail |-> nTail, dir |-> dir]

(* ---------------- reads of tailX / tailY -------------------------------- *)
\* the values a loop over i < n can read behind the array: any of S when n
\* exceeds the capacity, and none (0, never read) otherwise
Beyond(n, S) == IF n > TailCap THEN S ELSE {0}

\* the array t as a loop over i < n sees it, index TailCap yielding v
Reads(t, v) == [i \in 0..TailCap |-> IF i < TailCap THEN t[i] ELSE v]

(* ---------------- isPositionOnSnake, PlaceFood -------------------------- *)
\* the globals isPositionOnSnake reads, as they are when it is called
Snake(hX, hY, tX, tY, n) == [headX |-> hX, headY |-> hY, tailX |-> tX, tailY |-> tY, nTail |-> n]

isPositionOnSnake(x, y, sn) ==
    \/ (sn.headX = x /\ sn.headY = y)
    \/ \E i \in 0..(sn.nTail - 1) : sn.tailX[i] = x /\ sn.tailY[i] = y

\* the position one sample of PlaceFood's loop body computes
SampleX(r) == (r % WIDTH) + 1
SampleY(r) == (r % HEIGHT) + 1

\* the limit PlaceFood compares attempts with
AttemptLimit == WIDTH * HEIGHT

\* mutant of CapReached: the cap compared one too high
CapReachedLate(a) == a > AttemptLimit + 1

\* the break of PlaceFood, taken after attempts++ has made it a
CapReached(a) == a > AttemptLimit

\* the i-th pair of rand() results of stream st
RandAt(st, i) == IF i <= st.k THEN st.r ELSE st.s

\* one pass through the body of PlaceFood's do-while, entered with `a` attempts
\* made: the sample, attempts++, the break, and the while condition
PlaceFoodIter(a, st, sn) ==
    LET fx == SampleX(RandAt(st, a + 1)[1])
        fy == SampleY(RandAt(st, a + 1)[2])
    IN  [foodX |-> fx, foodY |-> fy, attempts |-> a + 1,
         again |-> IF CapReached(a + 1) THEN FALSE ELSE isPositionOnSnake(fx, fy, sn)]

\* the passes entered with lo, lo+1, ..., hi attempts made, run in this order
\* until one leaves the loop (the range is halved to keep the evaluation
\* shallow; the passes and their order are those of the loop)
RECURSIVE PlaceFoodPasses(_, _, _, _)
PlaceFoodPasses(lo, hi, st, sn) ==
    IF lo = hi
    THEN PlaceFoodIter(lo, st, sn)
    ELSE LET first == PlaceFoodPasses(lo, (lo + hi) \div 2, st, sn)
         IN  IF first.again
             THEN PlaceFoodPasses((lo + hi) \div 2 + 1, hi, st, sn)
             ELSE first

\* the most passes that can run: while p <= MaxPasses covers every pass that
\* CapReached lets the loop reach
MaxPasses == WIDTH * HEIGHT + 2

\* PlaceFood: attempts = 0, then the do-while
PlaceFood(st, sn) == PlaceFoodPasses(0, MaxPasses - 1, st, sn)

\* what PlaceFood can leave in foodX, foodY and attempts: one run per stream
PlaceFoodRuns(sn) == {PlaceFood(st, sn) : st \in Streams}

(* ---------------- main: start-up --------------------------------------- *)
\* mutant of TooSmall: the terminal is refused only when both sizes are short
TooSmallBoth(rows, cols) == rows < HEIGHT + 6 /\ cols < WIDTH + 2

TooSmall(rows, cols) == rows < HEIGHT + 6 \/ cols < WIDTH + 2

Start ==
    /\ pc = "start"
    /\ \E rows \in TermRows, cols \in TermCols :
          /\ max_y' = rows
          /\ max_x' = cols
          /\ IF TooSmall(rows, cols)
             THEN /\ pc' = "exit"
                  /\ exitStatus' = 1
             ELSE /\ pc' = "setup"
                  /\ exitStatus' = exitStatus
    /\ pre' = Snapshot
    /\ last' = "Start"
    /\ lastKeys' = <<>>
    /\ attempts' = 0
    /\ placeFoodCalls' = 0
    /\ UNCHANGED <<game, playing, clock, screen, ticks, history>>

(* ---------------- Setup (with main's DrawBoard and gettimeofday) -------- *)
\* the game area after clear() and DrawBoard: nothing drawn, "Score: 0"
Blank == [food |-> <<>>, tail |-> {}, head |-> <<>>, score |-> 0]

\* the test of main's while (!gameOver), taken where the loop head is reached
LoopHead(g) == IF g = 0 THEN "input" ELSE "over"

Setup ==
    /\ pc = "setup"
    /\ \E f \in PlaceFoodRuns(Snake(WIDTH \div 2, HEIGHT \div 2, tailX, tailY, 0)) :
          /\ foodX' = f.foodX
          /\ foodY' = f.foodY
          /\ attempts' = f.attempts
    /\ gameOver' = 0
    /\ dir' = STOP
    /\ headX' = WIDTH \div 2
    /\ headY' = HEIGHT \div 2
    /\ score' = 0
    /\ nTail' = 0
    /\ placeFoodCalls' = 1
    /\ pc' = "input"
    /\ pre' = Snapshot
    /\ last' = "Setup"
    /\ lastKeys' = <<>>
    /\ ticks' = ticks
    /\ screen' = Blank
    /\ sinceUpdate' = 0
    /\ sinceLogic' = 0
    /\ tickDir' = STOP
    /\ written' = 0
    /\ UNCHANGED <<tailX, tailY, playing, max_y, max_x, exitStatus>>

(* ---------------- Input ------------------------------------------------- *)
\* mutant of KeyDir: a key without a case stops the snake
KeyDirOtherStops(d, ch) ==
    CASE ch \in {"a", "A", "KEY_LEFT"}  -> IF d # RIGHT THEN LEFT ELSE d
      [] ch \in {"d", "D", "KEY_RIGHT"} -> IF d # LEFT THEN RIGHT ELSE d
      [] ch \in {"w", "W", "KEY_UP"}    -> IF d # DOWN THEN UP ELSE d
      [] ch \in {"s", "S", "KEY_DOWN"}  -> IF d # UP THEN DOWN ELSE d
      [] OTHER -> STOP

\* mutant of KeyDir: the reverse-direction tests dropped
KeyDirNoReverseTest(d, ch) ==
    CASE ch \in {"a", "A", "KEY_LEFT"}  -> LEFT
      [] ch \in {"d", "D", "KEY_RIGHT"} -> RIGHT
      [] ch \in {"w", "W", "KEY_UP"}    -> UP
      [] ch \in {"s", "S", "KEY_DOWN"}  -> DOWN
      [] OTHER -> d

\* dir after the switch of Input has handled the key ch
KeyDir(d, ch) ==
    CASE ch \in {"a", "A", "KEY_LEFT"}  -> IF d # RIGHT THEN LEFT ELSE d
      [] ch \in {"d", "D", "KEY_RIGHT"} -> IF d # LEFT THEN RIGHT ELSE d
      [] ch \in {"w", "W", "KEY_UP"}    -> IF d # DOWN THEN UP ELSE d
      [] ch \in {"s", "S", "KEY_DOWN"}  -> IF d # UP THEN DOWN ELSE d
      [] OTHER -> d

\* gameOver after the switch of Input has handled the key ch
KeyOver(g, ch) == IF ch \in {"q", "Q"} THEN 1 ELSE g

\* the while ((ch = getch()) != ERR) loop over the pending keys
RECURSIVE InputLoop(_, _, _)
InputLoop(keys, d, g) ==
    IF keys = <<>>
    THEN [dir |-> d, gameOver |-> g]
    ELSE InputLoop(Tail(keys), KeyDir(d, Head(keys)), KeyOver(g, Head(keys)))

Input ==
    /\ pc = "input"
    /\ \E keys \in KeyBuffers :
          LET r == InputLoop(keys, dir, gameOver)
          IN  /\ dir' = r.dir
              /\ gameOver' = r.gameOver
              /\ lastKeys' = keys
    /\ pc' = "time"
    /\ pre' = Snapshot
    /\ last' = "Input"
    /\ attempts' = 0
    /\ placeFoodCalls' = 0
    /\ UNCHANGED <<score, headX, headY, foodX, foodY, tailX, tailY, nTail,
                   playing, max_y, max_x, clock, exitStatus, screen, ticks,
                   history>>

(* ---------------- main: the timing test --------------------------------- *)
\* mutant of TickDue: the tick fires one microsecond early
TickDueEarly(e) == e >= GAME_SPEED - 1

TickDue(e) == e >= GAME_SPEED

TimeCheck ==
    /\ pc = "time"
    /\ \E d \in Delays :
          /\ sinceUpdate' = sinceUpdate + d
          /\ sinceLogic' = sinceLogic + d
          /\ pc' = IF TickDue(sinceUpdate + d) THEN "logic" ELSE LoopHead(gameOver)
    /\ pre' = Snapshot
    /\ last' = "TimeCheck"
    /\ lastKeys' = <<>>
    /\ attempts' = 0
    /\ placeFoodCalls' = 0
    /\ UNCHANGED <<game, playing, max_y, max_x, exitStatus, screen, ticks,
                   history>>

(* ---------------- Logic -------------------------------------------------- *)
\* the switch (dir) on newHeadX / newHeadY
MoveX(x, d) == CASE d = LEFT -> x - 1 [] d = RIGHT -> x + 1 [] OTHER -> x
MoveY(y, d) == CASE d = UP -> y - 1 [] d = DOWN -> y + 1 [] OTHER -> y

\* mutant of WrapX: the left wall stops the head instead of wrapping it
WrapXStopLeft(x) == IF x > WIDTH THEN 1 ELSE IF x < 1 THEN 1 ELSE x

\* wall wrapping, then the double-check of the bounds
WrapX(x) == IF x > WIDTH THEN 1 ELSE IF x < 1 THEN WIDTH ELSE x
WrapY(y) == IF y > HEIGHT THEN 1 ELSE IF y < 1 THEN HEIGHT ELSE y
ClampX(x) == LET a == IF x < 1 THEN 1 ELSE x IN IF a > WIDTH THEN WIDTH ELSE a
ClampY(y) == LET a == IF y < 1 THEN 1 ELSE y IN IF a > HEIGHT THEN HEIGHT ELSE a

NewHeadX(x, d) == ClampX(WrapX(MoveX(x, d)))
NewHeadY(y, d) == ClampY(WrapY(MoveY(y, d)))

\* the iterations i = hi, hi - 1, ..., lo of the shift loop, each t[i] = t[i-1],
\* run in this order (the range is halved to keep the evaluation shallow, and
\* the upper half is computed, by the test on its domain, before the lower
\* half starts from it)
RECURSIVE ShiftSteps(_, _, _)
ShiftSteps(t, lo, hi) ==
    IF lo > hi THEN t
    ELSE IF lo = hi THEN [t EXCEPT ![lo] = t[lo - 1]]
    ELSE LET upper == ShiftSteps(t, (lo + hi) \div 2 + 1, hi)
         IN  IF DOMAIN upper = DOMAIN t
             THEN ShiftSteps(upper, lo, (lo + hi) \div 2)
             ELSE t

\* for (i = nTail - 1; i > 0; i--) t[i] = t[i-1], from index i downwards
ShiftLoop(t, i) == ShiftSteps(t, 1, i)

\* mutant of ShiftTail: slot 0 takes the head's old coordinate, nothing shifts
ShiftTailHeadOnly(t, n, h) == IF n > 0 THEN [t EXCEPT ![0] = h] ELSE t

\* the tail update: the shift, then slot 0 takes the head's old coordinate
ShiftTail(t, n, h) ==
    IF n > 0 THEN [ShiftLoop(t, n - 1) EXCEPT ![0] = h] ELSE t

\* mutant of SelfCollision: the loop stops one segment early
SelfCollisionShort(hX, hY, tX, tY, n) ==
    \E i \in 0..(n - 2) : tX[i] = hX /\ tY[i] = hY

\* mutant of SelfCollision: only the first segment is compared
SelfCollisionFirst(hX, hY, tX, tY, n) == n > 0 /\ tX[0] = hX /\ tY[0] = hY

\* the self-collision loop
SelfCollision(hX, hY, tX, tY, n) ==
    \E i \in 0..(n - 1) : tX[i] = hX /\ tY[i] = hY

\* mutant of WillEatFood: only the column compared
WillEatFoodColumn(nX, nY, fX, fY) == nX = fX

\* willEatFood = (newHeadX == foodX && newHeadY == foodY)
WillEatFood(nX, nY, fX, fY) == nX = fX /\ nY = fY

\* mutants of ScoreAfterEat and TailAfterEat: one point per food; no growth
ScoreAfterEatOne(sc) == sc + 1
TailAfterEatNone(n) == n

\* score and nTail after eating
ScoreAfterEat(sc) == sc + 10
TailAfterEat(n) == n + 1

Logic ==
    /\ pc = "logic"
    /\ IF dir = STOP
       THEN /\ attempts' = 0
            /\ placeFoodCalls' = 0
            /\ UNCHANGED <<game, ticks, history>>
       ELSE \* a move entered with nTail > TailCap would write tailX[TailCap];
            \* the exploration ends there (the guard on nTail)
            LET newHeadX == NewHeadX(headX, dir)
                newHeadY == NewHeadY(headY, dir)
                willEatFood == WillEatFood(newHeadX, newHeadY, foodX, foodY)
                tX == ShiftTail(tailX, nTail, headX)
                tY == ShiftTail(tailY, nTail, headY)
            IN  /\ ticks < MaxTicks
                /\ nTail <= TailCap
                /\ ticks' = ticks + 1
                /\ tickDir' = dir
                /\ written' = IF nTail > written THEN nTail ELSE written
                /\ tailX' = tX
                /\ tailY' = tY
                /\ headX' = newHeadX
                /\ headY' = newHeadY
                /\ dir' = dir
                /\ IF SelfCollision(newHeadX, newHeadY, tX, tY, nTail)
                   THEN /\ gameOver' = 1
                        /\ attempts' = 0
                        /\ placeFoodCalls' = 0
                        /\ UNCHANGED <<score, nTail, foodX, foodY>>
                   ELSE IF willEatFood
                   THEN /\ score' = ScoreAfterEat(score)
                        /\ nTail' = TailAfterEat(nTail)
                        /\ placeFoodCalls' = 1
                        /\ gameOver' = gameOver
                        /\ \E ox \in Beyond(TailAfterEat(nTail), BeyondX),
                              oy \in Beyond(TailAfterEat(nTail), BeyondY) :
                              \E f \in PlaceFoodRuns(Snake(newHeadX, newHeadY,
                                                           Reads(tX, ox), Reads(tY, oy),
                                                           TailAfterEat(nTail))) :
                                 /\ foodX' = f.foodX
                                 /\ foodY' = f.foodY
                                 /\ attempts' = f.attempts
                   ELSE /\ attempts' = 0
                        /\ placeFoodCalls' = 0
                        /\ UNCHANGED <<gameOver, score, nTail, foodX, foodY>>
    /\ pc' = "draw"
    /\ pre' = Snapshot
    /\ last' = "Logic"
    /\ lastKeys' = <<>>
    /\ sinceLogic' = 0
    /\ UNCHANGED <<playing, max_y, max_x, sinceUpdate, exitStatus, screen>>

(* ---------------- Draw, and last_update = current_time ------------------- *)
InArea(x, y) == x >= 1 /\ x <= WIDTH /\ y >= 1 /\ y <= HEIGHT

\* what Draw puts on the cleared game area: the food, the tail segments inside
\* the area, the head if inside the area, and the score line
FrameOf(tX, tY) ==
    [food |-> <<foodX, foodY>>,
     tail |-> {<<tX[i], tY[i]>> :
                  i \in {j \in 0..(nTail - 1) : InArea(tX[j], tY[j])}},
     head |-> IF InArea(headX, headY) THEN <<headX, headY>> ELSE <<>>,
     score |-> score]

\* the frame when every read is inside the arrays
Frame == FrameOf(tailX, tailY)

Draw ==
    /\ pc = "draw"
    /\ \E ox \in Beyond(nTail, BeyondX), oy \in Beyond(nTail, BeyondY) :
          screen' = FrameOf(Reads(tailX, ox), Reads(tailY, oy))
    /\ pc' = LoopHead(gameOver)
    /\ pre' = Snapshot
    /\ last' = "Draw"
    /\ lastKeys' = <<>>
    /\ attempts' = 0
    /\ placeFoodCalls' = 0
    /\ sinceUpdate' = 0
    /\ UNCHANGED <<game, playing, max_y, max_x, sinceLogic, exitStatus, ticks,
                   history>>

(* ---------------- main: the game-over prompt ----------------------------- *)
\* the keys that end the do-while around the blocking getch()
Choices == {"r", "R", "q", "Q"}

\* mutant of Quits: only the lower-case key quits
QuitsLower(choice) == choice = "q"

\* if (choice == 'q' || choice == 'Q')
Quits(choice) == choice \in {"q", "Q"}

Prompt ==
    /\ pc = "over"
    /\ \E choice \in Choices :
          /\ lastKeys' = <<choice>>
          /\ IF Quits(choice)
             THEN /\ playing' = FALSE
                  /\ pc' = "done"
                  /\ exitStatus' = 0
             ELSE /\ playing' = playing
                  /\ pc' = "setup"
                  /\ exitStatus' = exitStatus
    /\ pre' = Snapshot
    /\ last' = "Prompt"
    /\ attempts' = 0
    /\ placeFoodCalls' = 0
    /\ UNCHANGED <<game, max_y, max_x, clock, screen, ticks, history>>


Init ==
    /\ pc = "start"
    /\ gameOver = 0
    /\ score = 0
    /\ headX = 0
    /\ headY = 0
    /\ foodX = 0
    /\ foodY = 0
    /\ tailX = [i \in 0..(TailCap - 1) |-> 0]
    /\ tailY = [i \in 0..(TailCap - 1) |-> 0]
    /\ nTail = 0
    /\ dir = STOP
    /\ playing = TRUE
    /\ max_y = 0
    /\ max_x = 0
    /\ sinceUpdate = 0
    /\ sinceLogic = 0
    /\ exitStatus = -1
    /\ screen = Blank
    /\ pre = [gameOver |-> 0, score |-> 0, headX |-> 0, headY |-> 0,
              foodX |-> 0, foodY |-> 0,
              tailX |-> [i \in 0..(TailCap - 1) |-> 0],
              tailY |-> [i \in 0..(TailCap - 1) |-> 0],
              nTail |-> 0, dir |-> STOP]
    /\ last = "none"
    /\ lastKeys = <<>>
    /\ attempts = 0
    /\ placeFoodCalls = 0
    /\ ticks = 0
    /\ tickDir = STOP
    /\ written = 0

Next == Start \/ Setup \/ Input \/ TimeCheck \/ Logic \/ Draw \/ Prompt

Spec == Init /\ [][Next]_vars
(* ---------------- play near the walls ------------------------------------ *)
\* Heads next to each wall and in a corner, which a first playthrough reaches
\* by moving without eating; the exploration of wall wrapping starts there,
\* at the loop head after a Draw.
WallHeads == {<<WIDTH, 10>>, <<WIDTH - 1, 10>>, <<1, 10>>, <<20, 1>>,
              <<20, HEIGHT>>, <<WIDTH, HEIGHT>>, <<1, 1>>}

InitWall ==
    /\ pc = "input"
    /\ gameOver = 0
    /\ score = 0
    /\ \E h \in WallHeads : headX = h[1] /\ headY = h[2]
    /\ foodX = 21
    /\ foodY = 11
    /\ tailX = [i \in 0..(TailCap - 1) |-> 0]
    /\ tailY = [i \in 0..(TailCap - 1) |-> 0]
    /\ nTail = 0
    /\ dir \in {LEFT, RIGHT, UP, DOWN}
    /\ playing = TRUE
    /\ max_y = HEIGHT + 6
    /\ max_x = WIDTH + 2
    /\ sinceUpdate = 0
    /\ sinceLogic = 0
    /\ exitStatus = -1
    /\ screen = Frame
    /\ pre = Snapshot
    /\ last = "Draw"
    /\ lastKeys = <<>>
    /\ attempts = 0
    /\ placeFoodCalls = 0
    /\ ticks = 0
    /\ tickDir = STOP
    /\ written = 0

NextWall == Input \/ TimeCheck \/ Logic \/ Draw

SpecWall == InitWall /\ [][NextWall]_vars

(* ---------------- play with a full tail array ---------------------------- *)
\* The k-th cell of a path that runs right along row 1, down at the wall, left
\* along row 2, down, and right along row 3.
LongCell(k) ==
    LET row == k \div WIDTH
        off == k % WIDTH
    IN  <<IF row % 2 = 0 THEN off + 1 ELSE WIDTH - off, row + 1>>

\* A playthrough in which the snake has eaten TailCap foods along that path:
\* the head is on cell TailCap, tail[i] on cell TailCap - 1 - i, every slot
\* written by the shift; the next food lies on the head's row, one or four
\* cells ahead.  The exploration starts at the loop head after a Draw.
InitLong ==
    /\ pc = "input"
    /\ gameOver = 0
    /\ score = 10 * TailCap
    /\ headX = LongCell(TailCap)[1]
    /\ headY = LongCell(TailCap)[2]
    /\ foodX \in {LongCell(TailCap)[1] + 1, LongCell(TailCap)[1] + 4}
    /\ foodY = LongCell(TailCap)[2]
    /\ tailX = [i \in 0..(TailCap - 1) |-> LongCell(TailCap - 1 - i)[1]]
    /\ tailY = [i \in 0..(TailCap - 1) |-> LongCell(TailCap - 1 - i)[2]]
    /\ nTail = TailCap
    /\ dir = RIGHT
    /\ playing = TRUE
    /\ max_y = HEIGHT + 6
    /\ max_x = WIDTH + 2
    /\ sinceUpdate = 0
    /\ sinceLogic = 0
    /\ exitStatus = -1
    /\ screen = Frame
    /\ pre = Snapshot
    /\ last = "Draw"
    /\ lastKeys = <<>>
    /\ attempts = 0
    /\ placeFoodCalls = 0
    /\ ticks = 0
    /\ tickDir = RIGHT
    /\ written = TailCap

NextLong == Input \/ TimeCheck \/ Logic \/ Draw

SpecLong == InitLong /\ [][NextLong]_vars

(* ======================= properties ====================================== *)
\* the state right after a Logic call that was entered with dir # STOP
Tick == last = "Logic" /\ pre.dir # STOP

\* the head is on a counted tail segment
HeadOnTail == \E i \in 0..(nTail - 1) : tailX[i] = headX /\ tailY[i] = headY

\* the tick just run found the head on a segment (the tail is not written
\* after the shift, so tailX and tailY are the shifted arrays)
CollisionFound ==
    \E i \in 0..(pre.nTail - 1) : tailX[i] = headX /\ tailY[i] = headY

\* C1: in every reachable state nTail * 10 = score.
C1_GrowthScore == nTail * 10 = score
C1_Witness == last = "Logic" /\ nTail = 2 /\ score = 20

\* C2: in every reachable state the head differs from every counted tail
\* segment, unless a self-collision set gameOver.
C2_HeadOffTail == HeadOnTail => gameOver = 1

\* C3: when PlaceFood has just returned and some cell of the grid is free, the
\* food is neither on the head nor on a counted tail segment.
C3_FoodOffSnake ==
    LET sn == Snake(headX, headY, tailX, tailY, nTail)
    IN  (/\ placeFoodCalls = 1
         /\ \E x \in 1..WIDTH, y \in 1..HEIGHT : ~isPositionOnSnake(x, y, sn))
        => ~isPositionOnSnake(foodX, foodY, sn)

\* C4 as claimed: a tick whose head enters the cell that any counted segment,
\* the last one included, held before the tick sets gameOver and keeps the score.
C4_AnySegment ==
    (/\ Tick
     /\ \E i \in 0..(pre.nTail - 1) : pre.tailX[i] = headX /\ pre.tailY[i] = headY)
    => (gameOver = 1 /\ score = pre.score)
\* C4 as amended: the same for every counted segment but the last one,
\* tail[i] with 0 <= i < nTail - 1.
C4_AllButLast ==
    (/\ Tick
     /\ \E i \in 0..(pre.nTail - 2) : pre.tailX[i] = headX /\ pre.tailY[i] = headY)
    => (gameOver = 1 /\ score = pre.score)
C4_Witness ==
    /\ Tick
    /\ pre.gameOver = 0
    /\ \E i \in 0..(pre.nTail - 2) : pre.tailX[i] = headX /\ pre.tailY[i] = headY

\* C5: a tick moves the head one cell in dir, each axis wrapped on its own:
\* WIDTH -> 1 moving Right, 1 -> WIDTH moving Left, HEIGHT -> 1 moving Down,
\* 1 -> HEIGHT moving Up; the other coordinate is unchanged.
C5_StepX ==
    CASE pre.dir = RIGHT -> IF pre.headX = WIDTH THEN 1 ELSE pre.headX + 1
      [] pre.dir = LEFT  -> IF pre.headX = 1 THEN WIDTH ELSE pre.headX - 1
      [] OTHER -> pre.headX
C5_StepY ==
    CASE pre.dir = DOWN -> IF pre.headY = HEIGHT THEN 1 ELSE pre.headY + 1
      [] pre.dir = UP   -> IF pre.headY = 1 THEN HEIGHT ELSE pre.headY - 1
      [] OTHER -> pre.headY
C5_WrappedStep == Tick => (headX = C5_StepX /\ headY = C5_StepY)
C5_Witness ==
    /\ Tick
    /\ pre.headX = 1 /\ pre.dir = LEFT /\ headX = WIDTH /\ headY = pre.headY

\* C6: a single directional key leaves dir unchanged when it is the reverse of
\* dir, and otherwise makes dir the key's direction.
C6_KeyDirection(k) ==
    CASE k \in {"a", "A", "KEY_LEFT"}  -> LEFT
      [] k \in {"d", "D", "KEY_RIGHT"} -> RIGHT
      [] k \in {"w", "W", "KEY_UP"}    -> UP
      [] k \in {"s", "S", "KEY_DOWN"}  -> DOWN
      [] OTHER -> STOP
C6_Reverse(d) ==
    CASE d = LEFT -> RIGHT [] d = RIGHT -> LEFT [] d = UP -> DOWN
      [] d = DOWN -> UP [] OTHER -> STOP
C6_SingleKey ==
    (/\ last = "Input"
     /\ Len(lastKeys) = 1
     /\ C6_KeyDirection(lastKeys[1]) # STOP)
    => dir = IF pre.dir # STOP /\ C6_KeyDirection(lastKeys[1]) = C6_Reverse(pre.dir)
             THEN pre.dir
             ELSE C6_KeyDirection(lastKeys[1])
C6_Witness ==
    /\ last = "Input"
    /\ lastKeys = <<"KEY_LEFT">>
    /\ pre.dir = RIGHT
    /\ dir = RIGHT

\* C7: a tick whose new head is on the food and that finds no self-collision
\* adds 10 to score, 1 to nTail, and runs PlaceFood once.
C7_Eat ==
    (/\ Tick
     /\ headX = pre.foodX /\ headY = pre.foodY
     /\ ~CollisionFound)
    => (/\ score = pre.score + 10
        /\ nTail = pre.nTail + 1
        /\ placeFoodCalls = 1
        /\ attempts >= 1)
C7_Witness ==
    /\ Tick
    /\ headX = pre.foodX /\ headY = pre.foodY
    /\ ~CollisionFound
    /\ pre.nTail = 1
    /\ nTail = 2

\* C8: a tick whose new head is not on the food leaves score, nTail and the
\* food unchanged; from the fresh state with dir = Right and the food not at
\* (21,10) it yields head (21,10), an empty tail and score 0.
C8_Fresh ==
    /\ pre.headX = WIDTH \div 2 /\ pre.headY = HEIGHT \div 2
    /\ pre.nTail = 0 /\ pre.score = 0 /\ pre.dir = RIGHT
    /\ ~(pre.foodX = 21 /\ pre.foodY = 10)
C8_NoEat ==
    /\ (Tick /\ ~(headX = pre.foodX /\ headY = pre.foodY))
          => (/\ score = pre.score
              /\ nTail = pre.nTail
              /\ foodX = pre.foodX /\ foodY = pre.foodY
              /\ placeFoodCalls = 0)
    /\ (Tick /\ C8_Fresh)
          => (headX = 21 /\ headY = 10 /\ nTail = 0 /\ score = 0)
C8_Witness ==
    /\ Tick /\ C8_Fresh
    /\ headX = 21 /\ headY = 10 /\ nTail = 0 /\ score = 0

\* C9 as claimed: PlaceFood draws at most WIDTH * HEIGHT samples.
C9_AtMostArea == attempts <= WIDTH * HEIGHT
\* C9 as amended: PlaceFood ends after at most WIDTH * HEIGHT + 1 samples.
C9_AtMostAreaPlusOne == attempts <= WIDTH * HEIGHT + 1
C9_Witness == placeFoodCalls = 1 /\ attempts = WIDTH * HEIGHT + 1

\* C10: once gameOver is set, Logic is not run again, so that head, tail,
\* nTail, score, food and dir do not change until Setup runs.
C10_Frozen ==
    [][(gameOver = 1 /\ pc # "setup")
          => UNCHANGED <<headX, headY, tailX, tailY, nTail, score,
                         foodX, foodY, dir>>]_vars

\* C11: Logic runs in a loop iteration exactly when the elapsed time measured
\* since last_update is at least GAME_SPEED; every Logic call is followed at
\* once by one Draw and the reset of last_update, so that at least GAME_SPEED
\* microseconds are measured between two consecutive Logic calls of a
\* playthrough; Input has run in every iteration before the time is tested.
C11_Timing ==
    /\ (pc = "logic") =>
           (last = "TimeCheck" /\ elapsed_time >= GAME_SPEED /\ sinceLogic >= GAME_SPEED)
    /\ (last = "TimeCheck" /\ elapsed_time >= GAME_SPEED) => pc = "logic"
    /\ (last = "TimeCheck" /\ elapsed_time < GAME_SPEED) => pc \in {"input", "over"}
    /\ (last = "Logic") <=> (pc = "draw")
    /\ (last = "Draw") => sinceUpdate = 0
    /\ (pc = "time") => last = "Input"
C11_Witness ==
    /\ pc = "logic"
    /\ nTail >= 1
    /\ lastKeys = <<>>
    /\ elapsed_time = 2 * GAME_SPEED - 1
    /\ sinceLogic = elapsed_time

\* C12: after 'r' or 'R' at the game-over prompt Setup runs and the next
\* playthrough starts fresh whatever the previous one left: gameOver = 0,
\* dir = STOP, head = (WIDTH/2, HEIGHT/2), score = 0, nTail = 0 and the food
\* inside the grid; after 'q' or 'Q' the outer loop ends and main returns 0.
C12_Restart ==
    /\ (last = "Prompt" /\ lastKeys[1] \in {"r", "R"}) =>
           (pc = "setup" /\ playing /\ exitStatus = -1)
    /\ (last = "Prompt" /\ lastKeys[1] \in {"q", "Q"}) =>
           (pc = "done" /\ ~playing /\ exitStatus = 0)
    /\ (last = "Setup") =>
           (/\ gameOver = 0 /\ dir = STOP
            /\ headX = WIDTH \div 2 /\ headY = HEIGHT \div 2
            /\ score = 0 /\ nTail = 0
            /\ InArea(foodX, foodY)
            /\ pc = "input")
    /\ (pc = "setup" /\ last # "Start") => last = "Prompt"
C12_Witness ==
    /\ last = "Setup"
    /\ pre.gameOver = 1 /\ pre.score = 20 /\ pre.nTail = 2 /\ pre.dir # STOP
    /\ score = 0 /\ nTail = 0

\* C13: when the terminal has fewer than HEIGHT + 6 rows or fewer than
\* WIDTH + 2 columns at startup, main returns a non-zero status and Setup,
\* Input, Logic and Draw never run; otherwise main enters the game loop.
C13_Short == max_y < HEIGHT + 6 \/ max_x < WIDTH + 2
C13_TerminalCheck ==
    /\ (last = "Start" /\ C13_Short) => (pc = "exit" /\ exitStatus > 0)
    /\ (last = "Start" /\ ~C13_Short) => (pc = "setup" /\ exitStatus = -1)
    /\ (pc = "exit") =>
           (/\ last = "Start"
            /\ Snapshot = pre
            /\ headX = 0 /\ headY = 0 /\ foodX = 0 /\ foodY = 0
            /\ screen = Blank)
    /\ (last \in {"Setup", "Input", "TimeCheck", "Logic", "Draw", "Prompt"})
           => ~C13_Short
C13_Witness ==
    /\ pc = "exit"
    /\ max_y = HEIGHT + 5
    /\ max_x = WIDTH + 2
    /\ exitStatus = 1

\* C14: within a playthrough the direction a tick uses is never the exact
\* reverse of the direction the tick before it used, whatever keys Input
\* drained between the two.
C14_NoReverse ==
    [][(pc = "logic" /\ dir # STOP /\ tickDir # STOP /\ tickDir' = dir)
          => dir # C6_Reverse(tickDir)]_vars

\* C15: from the first Setup on, the head, the food and every counted tail
\* segment tail[i], 0 <= i < nTail, are inside [1, WIDTH] x [1, HEIGHT], the
\* slot a growth has just counted included.
C15_InGrid ==
    (last \notin {"none", "Start"}) =>
        (/\ InArea(headX, headY)
         /\ InArea(foodX, foodY)
         /\ \A i \in 0..(nTail - 1) : InArea(tailX[i], tailY[i]))

\* C16: a tick entered with dir # STOP and nTail >= 1 leaves in tail[0] the
\* head position from before the tick and in tail[i] the pre-tick tail[i-1]
\* for 1 <= i < nTail (nTail as before the tick); entered with nTail = 0 it
\* writes no tail slot.
C16_Shift ==
    Tick =>
        IF pre.nTail >= 1
        THEN /\ tailX[0] = pre.headX /\ tailY[0] = pre.headY
             /\ \A i \in 1..(pre.nTail - 1) :
                    tailX[i] = pre.tailX[i - 1] /\ tailY[i] = pre.tailY[i - 1]
        ELSE tailX = pre.tailX /\ tailY = pre.tailY
C16_Witness ==
    /\ Tick
    /\ pre.nTail = 2
    /\ <<pre.tailX[1], pre.tailY[1]>> # <<pre.tailX[0], pre.tailY[0]>>
    /\ <<pre.tailX[0], pre.tailY[0]>> # <<pre.headX, pre.headY>>
    /\ tailX[1] = pre.tailX[0] /\ tailY[1] = pre.tailY[0]
    /\ tailX[0] = pre.headX /\ tailY[0] = pre.headY

\* C17: a tick entered with dir # STOP sets gameOver exactly when the new head
\* is on some tail segment after the shift (tail[i], 0 <= i < nTail); on such
\* a tick the eat step is skipped: score, nTail and the food keep their
\* values even when the new head is on the food.
C17_Collision ==
    Tick =>
        /\ CollisionFound => gameOver = 1
        /\ ~CollisionFound => gameOver = pre.gameOver
        /\ CollisionFound =>
               (/\ score = pre.score
                /\ nTail = pre.nTail
                /\ foodX = pre.foodX /\ foodY = pre.foodY
                /\ placeFoodCalls = 0)
C17_Witness ==
    /\ Tick
    /\ CollisionFound
    /\ pre.gameOver = 0
    /\ gameOver = 1
    /\ headX = pre.foodX /\ headY = pre.foodY
    /\ score = pre.score

\* C18: every tail cell a Draw renders (tail[i], 0 <= i < nTail, inside the
\* game area) comes from a slot that the shift of Logic has written since the
\* last Setup, in the first playthrough and after any restart.
C18_DrawnWritten ==
    (last = "Draw") =>
        \A i \in 0..(nTail - 1) : InArea(tailX[i], tailY[i]) => i < written

\* C19: a Logic call entered with dir = STOP leaves head, tail, nTail, score,
\* food and gameOver unchanged; and once dir has left STOP, only Setup makes
\* it STOP again.
C19_Idle ==
    [][/\ (pc = "logic" /\ dir = STOP) =>
              UNCHANGED <<headX, headY, tailX, tailY, nTail, score,
                          foodX, foodY, gameOver>>
       /\ (dir # STOP /\ dir' = STOP) => pc = "setup"]_vars
C19_Witness ==
    /\ last = "Logic"
    /\ pre.dir = STOP
    /\ ticks >= 1
    /\ Snapshot = pre

\* C20: in every reachable state nTail <= 100, so that every index of tailX
\* and tailY that Logic, isPositionOnSnake and Draw use is below the arrays'
\* capacity.
C20_WithinCapacity == nTail <= TailCap

====
